---- MODULE Spec2Model ----
(***************************************************************************)
(* A model of the derivable-object-pool crate (src/src/lib.rs): the        *)
(* Pool<T> (a Mutex<Vec<T>> and a generator fn), the ObjectPool::new       *)
(* acquire protocol and the Reusable<T> wrapper with its Drop.             *)
(*                                                                         *)
(* Threads call the pool's operations concurrently.  Every operation is    *)
(* split where the code can be interleaved: the call, the lock().unwrap()  *)
(* of Pool::get_pool, and the body executed under the MutexGuard.          *)
(***************************************************************************)
EXTENDS Naturals, Sequences, FiniteSets

VARIABLES
    pool,         \* Pool::pool, the Vec<T> inside the Mutex (top = last element)
    lock,         \* the thread holding the MutexGuard, NoThread when free
    poisoned,     \* the Mutex's poison flag
    generator,    \* what the bound Pool::generator fn does when called
    pc,           \* each thread's position in the operation it executes
    op,           \* each thread's current operation
    hnd,          \* each thread's Reusable of the current operation
    item,         \* each thread's T in flight (argument of insert, taken payload)
    handles,      \* every Reusable<T> ever created
    nextH,        \* number of Reusable slots handed out
    raw,          \* the T values the callers own outside any Reusable
    nextId,       \* number of T instances created so far
    genCalls,     \* number of calls of the generator that returned
    lastReturned, \* the payload the last collection change pushed from a drop
    scenario,     \* history: only acquires so far, then only drops, or other
    sequential,   \* history: only non-overlapping acquire/drop cycles so far
    postClear,    \* history: {n} when the collection changed by a clear and then n drops only
    lastChange,   \* history: the collection before its last change, for the changes recorded
    fromHandles,  \* history: the live Reusable slots built by Reusable::from
    gone          \* history: number of instances dropped by Pool::clear or by their owner

vars == <<pool, lock, poisoned, generator, pc, op, hnd, item, handles,
          nextH, raw, nextId, genCalls, lastReturned, scenario,
          sequential,
         postClear, lastChange, fromHandles, gone>>

----------------------------------------------------------------------------
(* Bounds of the model *)

NumThreads == 2
MaxItems == 3
MaxHandles == 2
MaxVal == 1

Threads == 1..NumThreads
NoThread == 0
HandleIds == 1..MaxHandles
Vals == 0..MaxVal

(* A T instance: its identity and the value of its field (Test(i32)). *)
NoItem == [id |-> 0, val |-> 0]
NewItem(i) == [id |-> i, val |-> 0]

(* What a generator fn may do: return a value, call back into its own      *)
(* pool, or panic.                                                         *)
GeneratorKinds == {"plain", "reentrant", "panics"}

(* The last change of the collection is not one of those recorded. *)
NoChange == [by |-> "none", was |-> <<>>]

NoHandle == [state |-> "Unused", item |-> NoItem, returns |-> 0]

(* Faulty variant of Top: the oldest spare is taken instead of the newest. *)
Top_Oldest(s) == s[1]


(* Faulty variant of Front: the oldest spare is dropped from the rest. *)
Front_DropsOldest(s) == SubSeq(s, 2, Len(s))

(* Vec::pop: the last element and the rest. *)
Top(s) == s[Len(s)]
Front(s) == SubSeq(s, 1, Len(s) - 1)

Busy(t) == pc[t] # "idle"
PendingNew == Cardinality({t \in Threads : op[t] = "new" /\ Busy(t)})
Live(h) == handles[h].state \in {"Holding", "Dropping"}

----------------------------------------------------------------------------
Init ==
    /\ pool = <<>>
    /\ lock = NoThread
    /\ poisoned = FALSE
    /\ generator \in GeneratorKinds
    /\ pc = [t \in Threads |-> "idle"]
    /\ op = [t \in Threads |-> "none"]
    /\ hnd = [t \in Threads |-> 0]
    /\ item = [t \in Threads |-> NoItem]
    /\ handles = [h \in HandleIds |-> NoHandle]
    /\ nextH = 0
    /\ raw = {}
    /\ nextId = 0
    /\ genCalls = 0
    /\ lastReturned = NoItem
    /\ scenario = "acquire"
    /\ sequential = TRUE
    /\ postClear = {}
    /\ lastChange = NoChange
    /\ fromHandles = {}
    /\ gone = 0

----------------------------------------------------------------------------
(* The history variables' updates *)

(* Vec::pop by Pool::remove_reusable is recorded with the collection it    *)
(* found; another pop that removed an element is not recorded; a pop of    *)
(* nothing changes nothing.                                                *)
PopBy(kind) ==
    IF pool = <<>> THEN lastChange
    ELSE IF kind = "remove_reusable" THEN [by |-> kind, was |-> pool]
    ELSE NoChange

(* The push by a drop is recorded with the collection before it when the   *)
(* handle was built by Reusable::from, and with the collection before the  *)
(* pop when the last change was the remove_reusable that took the very     *)
(* instance this drop pushes.                                              *)
PushByDrop(t) ==
    IF /\ lastChange.by = "remove_reusable"
       /\ lastChange.was[Len(lastChange.was)].id = item[t].id
    THEN [by |-> "round_trip", was |-> lastChange.was]
    ELSE IF hnd[t] \in fromHandles
    THEN [by |-> "drop_from", was |-> pool]
    ELSE NoChange

(* The count of drops since a clear is lost when a pop removes an element. *)
PostClearAfterPop == IF pool # <<>> THEN {} ELSE postClear

(* An acquire keeps the "acquire" phase, a drop (called when no acquire is *)
(* still running) moves to the "release" phase and keeps it; anything else *)
(* leaves the two-phase scenario.                                          *)
ScenarioAfter(kind) ==
    CASE kind = "new" -> IF scenario = "acquire" THEN "acquire" ELSE "other"
      [] kind = "drop" -> IF scenario \in {"acquire", "release"}
                          THEN "release" ELSE "other"
      [] OTHER -> "other"

(* An acquire is one more sequential cycle when no handle is live and no   *)
(* other thread is inside an operation.                                    *)
NoOverlap(t) ==
    /\ \A h \in HandleIds : ~Live(h)
    /\ \A u \in Threads \ {t} : ~Busy(u)

----------------------------------------------------------------------------
(* Pool::get_pool: self.pool.lock().unwrap() *)


(* Faulty variant of Unwind: the guard dropped by the panicking thread     *)
(* unlocks the mutex without poisoning it.                                 *)
Unwind_NoPoison(t) ==
    /\ pc' = [pc EXCEPT ![t] = "panicked"]
    /\ op' = [op EXCEPT ![t] = "none"]
    /\ hnd' = [hnd EXCEPT ![t] = 0]
    /\ item' = [item EXCEPT ![t] = NoItem]
    /\ poisoned' = poisoned
    /\ lock' = IF lock = t THEN NoThread ELSE lock

(* A panic ends the thread's operation: the thread unwinds, dropping the   *)
(* values it holds; a guard dropped while panicking poisons the mutex.     *)
Unwind(t) ==
    /\ pc' = [pc EXCEPT ![t] = "panicked"]
    /\ op' = [op EXCEPT ![t] = "none"]
    /\ hnd' = [hnd EXCEPT ![t] = 0]
    /\ item' = [item EXCEPT ![t] = NoItem]
    /\ poisoned' = (poisoned \/ lock = t)
    /\ lock' = IF lock = t THEN NoThread ELSE lock



(* Faulty variant of LockFor: lock() returns even when another thread      *)
(* holds the guard.                                                        *)
LockFor_NoExclusion(t, o, h, x) ==
    IF poisoned
    THEN Unwind(t)
    ELSE /\ pc' = [pc EXCEPT ![t] = "locked"]
         /\ op' = [op EXCEPT ![t] = o]
         /\ hnd' = [hnd EXCEPT ![t] = h]
         /\ item' = [item EXCEPT ![t] = x]
         /\ lock' = t
         /\ poisoned' = poisoned

(* Faulty variant of LockFor: the guard is recovered from the PoisonError, *)
(* the operation goes on whatever the poison flag says.                    *)
LockFor_IgnoresPoison(t, o, h, x) ==
    /\ lock = NoThread
    /\ pc' = [pc EXCEPT ![t] = "locked"]
    /\ op' = [op EXCEPT ![t] = o]
    /\ hnd' = [hnd EXCEPT ![t] = h]
    /\ item' = [item EXCEPT ![t] = x]
    /\ lock' = t
    /\ poisoned' = poisoned

(* lock() returns once the mutex is free.  On a poisoned mutex it returns  *)
(* Err and unwrap() panics; otherwise operation o goes on under the guard, *)
(* with its handle slot h and its argument x.                              *)
LockFor(t, o, h, x) ==
    /\ lock = NoThread
    /\ IF poisoned
       THEN Unwind(t)
       ELSE /\ pc' = [pc EXCEPT ![t] = "locked"]
            /\ op' = [op EXCEPT ![t] = o]
            /\ hnd' = [hnd EXCEPT ![t] = h]
            /\ item' = [item EXCEPT ![t] = x]
            /\ lock' = t
            /\ poisoned' = poisoned

(* The get_pool of a drop in progress. *)
GetPool(t) ==
    /\ pc[t] = "get_pool"
    /\ LockFor(t, op[t], hnd[t], item[t])
    /\ UNCHANGED <<pool, generator, handles, nextH, raw, nextId, genCalls,
                   lastReturned, scenario, sequential>>
    /\ UNCHANGED <<postClear, lastChange, fromHandles, gone>>

----------------------------------------------------------------------------
(* The calls: an idle thread calls an operation, which takes the lock *)

(* ObjectPool::new is called; the Reusable it will return is slot hnd. *)
CallNew(t) ==
    /\ pc[t] = "idle"
    /\ nextH < MaxHandles
    /\ nextId + PendingNew < MaxItems
    /\ LockFor(t, "new", nextH + 1, NoItem)
    /\ nextH' = nextH + 1
    /\ scenario' = ScenarioAfter("new")
    /\ sequential' = (sequential /\ NoOverlap(t))
    /\ UNCHANGED <<pool, generator, handles, raw, nextId, genCalls,
                   lastReturned>>
    /\ UNCHANGED <<postClear, lastChange, fromHandles, gone>>

(* Faulty variant of CallDrop: the payload is copied out, the handle keeps *)
(* it.                                                                     *)
CallDrop_NoTake(t, h) ==
    /\ pc[t] = "idle"
    /\ handles[h].state = "Holding"
    /\ pc' = [pc EXCEPT ![t] = "get_pool"]
    /\ op' = [op EXCEPT ![t] = "drop"]
    /\ hnd' = [hnd EXCEPT ![t] = h]
    /\ item' = [item EXCEPT ![t] = handles[h].item]
    /\ scenario' = IF PendingNew = 0 THEN ScenarioAfter("drop") ELSE "other"
    /\ UNCHANGED <<pool, lock, poisoned, generator, handles, nextH, raw,
                   nextId, genCalls, lastReturned, sequential>>
    /\ UNCHANGED <<postClear, lastChange, fromHandles, gone>>

(* Drop for Reusable: ManuallyDrop::take moves the payload out of the      *)
(* handle, then Pool::insert is called with it and reaches get_pool.       *)
CallDrop(t, h) ==
    /\ pc[t] = "idle"
    /\ handles[h].state = "Holding"
    /\ pc' = [pc EXCEPT ![t] = "get_pool"]
    /\ op' = [op EXCEPT ![t] = "drop"]
    /\ hnd' = [hnd EXCEPT ![t] = h]
    /\ item' = [item EXCEPT ![t] = handles[h].item]
    /\ handles' = [handles EXCEPT ![h].state = "Dropping"]
    /\ scenario' = IF PendingNew = 0 THEN ScenarioAfter("drop") ELSE "other"
    /\ UNCHANGED <<pool, lock, poisoned, generator, nextH, raw, nextId,
                   genCalls, lastReturned, sequential>>
    /\ UNCHANGED <<postClear, lastChange, fromHandles, gone>>

(* The operations without an argument: len, is_empty, clear, remove. *)
CallPlain(t, o) ==
    /\ pc[t] = "idle"
    /\ LockFor(t, o, 0, NoItem)
    /\ scenario' = ScenarioAfter(o)
    /\ sequential' = FALSE
    /\ UNCHANGED <<pool, generator, handles, nextH, raw, nextId, genCalls,
                   lastReturned>>
    /\ UNCHANGED <<postClear, lastChange, fromHandles, gone>>

CallLen(t) == CallPlain(t, "len")

CallIsEmpty(t) == CallPlain(t, "is_empty")

CallClear(t) == CallPlain(t, "clear")

CallRemove(t) == CallPlain(t, "remove")

(* Pool::insert(item) with a value the caller owns. *)
CallInsert(t, x) ==
    /\ pc[t] = "idle"
    /\ x \in raw
    /\ LockFor(t, "insert", 0, x)
    /\ raw' = raw \ {x}
    /\ scenario' = ScenarioAfter("insert")
    /\ sequential' = FALSE
    /\ UNCHANGED <<pool, generator, handles, nextH, nextId, genCalls,
                   lastReturned>>
    /\ UNCHANGED <<postClear, lastChange, fromHandles, gone>>

(* Pool::remove_reusable; the Reusable it may return is slot hnd. *)
CallRemoveReusable(t) ==
    /\ pc[t] = "idle"
    /\ nextH < MaxHandles
    /\ LockFor(t, "remove_reusable", nextH + 1, NoItem)
    /\ nextH' = nextH + 1
    /\ scenario' = ScenarioAfter("remove_reusable")
    /\ sequential' = FALSE
    /\ UNCHANGED <<pool, generator, handles, raw, nextId, genCalls,
                   lastReturned>>
    /\ UNCHANGED <<postClear, lastChange, fromHandles, gone>>

----------------------------------------------------------------------------
(* The bodies, executed while the thread holds the MutexGuard *)

Locked(t, o) == pc[t] = "locked" /\ op[t] = o /\ lock = t

(* The MutexGuard is dropped and the operation returns to its caller. *)
Return(t) ==
    /\ lock' = IF lock = t THEN NoThread ELSE lock
    /\ pc' = [pc EXCEPT ![t] = "idle"]
    /\ op' = [op EXCEPT ![t] = "none"]
    /\ hnd' = [hnd EXCEPT ![t] = 0]

(* Faulty variants of VecPush: the item is not stored; the item replaces   *)
(* the spares instead of joining them.                                     *)
VecPush_Lost(s, x) == s

VecPush_Replace(s, x) == <<x>>

(* Vec::push *)
VecPush(s, x) == Append(s, x)

(* Reusable::new(item): the handle wraps the item. *)
ReusableNew(x) == [state |-> "Holding", item |-> x, returns |-> 0]

(* Pool::len *)
PoolLen(t) ==
    /\ Locked(t, "len")
    /\ Return(t)
    /\ UNCHANGED <<pool, poisoned, generator, item, handles, nextH, raw,
                   nextId, genCalls, lastReturned, scenario, sequential>>
    /\ UNCHANGED <<postClear, lastChange, fromHandles, gone>>

(* Pool::is_empty *)
PoolIsEmpty(t) ==
    /\ Locked(t, "is_empty")
    /\ Return(t)
    /\ UNCHANGED <<pool, poisoned, generator, item, handles, nextH, raw,
                   nextId, genCalls, lastReturned, scenario, sequential>>
    /\ UNCHANGED <<postClear, lastChange, fromHandles, gone>>

(* Pool::insert called by the user: push the item. *)
PoolInsert(t) ==
    /\ Locked(t, "insert")
    /\ pool' = VecPush(pool, item[t])
    /\ item' = [item EXCEPT ![t] = NoItem]
    /\ lastReturned' = NoItem
    /\ postClear' = {}
    /\ lastChange' = NoChange
    /\ Return(t)
    /\ UNCHANGED <<poisoned, generator, handles, nextH, raw, nextId,
                   genCalls, scenario, sequential>>
    /\ UNCHANGED <<fromHandles, gone>>

(* Pool::insert called by Drop for Reusable: push the taken payload; the   *)
(* handle is gone.                                                         *)
DropInsert(t) ==
    /\ Locked(t, "drop")
    /\ pool' = VecPush(pool, item[t])
    /\ handles' = [handles EXCEPT ![hnd[t]].state = "ReturnedToPool",
                                  ![hnd[t]].returns = @ + 1]
    /\ lastReturned' = item[t]
    /\ postClear' = {n + 1 : n \in postClear}
    /\ lastChange' = PushByDrop(t)
    /\ fromHandles' = fromHandles \ {hnd[t]}
    /\ item' = [item EXCEPT ![t] = NoItem]
    /\ Return(t)
    /\ UNCHANGED <<poisoned, generator, nextH, raw, nextId, genCalls,
                   scenario, sequential>>
    /\ UNCHANGED gone


(* Faulty variant of PoolClear: the oldest spare survives the clear. *)
PoolClear_KeepsOldest(t) ==
    /\ Locked(t, "clear")
    /\ pool' = IF pool = <<>> THEN <<>> ELSE <<pool[1]>>
    /\ lastReturned' = NoItem
    /\ postClear' = {0}
    /\ lastChange' = NoChange
    /\ gone' = gone + Len(pool)
    /\ Return(t)
    /\ UNCHANGED <<poisoned, generator, item, handles, nextH, raw, nextId,
                   genCalls, scenario, sequential>>
    /\ UNCHANGED fromHandles

(* Pool::clear: Vec::clear drops every spare. *)
PoolClear(t) ==
    /\ Locked(t, "clear")
    /\ pool' = <<>>
    /\ lastReturned' = NoItem
    /\ postClear' = {0}
    /\ lastChange' = NoChange
    /\ gone' = gone + Len(pool)
    /\ Return(t)
    /\ UNCHANGED <<poisoned, generator, item, handles, nextH, raw, nextId,
                   genCalls, scenario, sequential>>
    /\ UNCHANGED fromHandles


(* Faulty variant of PoolRemove: the caller gets the last spare, which     *)
(* also stays in the collection.                                           *)
PoolRemove_Peek(t) ==
    /\ Locked(t, "remove")
    /\ IF pool # <<>>
       THEN /\ pool' = pool
            /\ raw' = raw \cup {Top(pool)}
       ELSE /\ pool' = pool
            /\ raw' = raw
    /\ lastReturned' = NoItem
    /\ postClear' = PostClearAfterPop
    /\ lastChange' = PopBy("remove")
    /\ Return(t)
    /\ UNCHANGED <<poisoned, generator, item, handles, nextH, nextId,
                   genCalls, scenario, sequential>>
    /\ UNCHANGED <<fromHandles, gone>>

(* Pool::remove: Vec::pop, the caller owns the result. *)
PoolRemove(t) ==
    /\ Locked(t, "remove")
    /\ IF pool # <<>>
       THEN /\ pool' = Front(pool)
            /\ raw' = raw \cup {Top(pool)}
       ELSE /\ pool' = pool
            /\ raw' = raw
    /\ lastReturned' = NoItem
    /\ postClear' = PostClearAfterPop
    /\ lastChange' = PopBy("remove")
    /\ Return(t)
    /\ UNCHANGED <<poisoned, generator, item, handles, nextH, nextId,
                   genCalls, scenario, sequential>>
    /\ UNCHANGED <<fromHandles, gone>>


(* Faulty variant of PoolRemoveReusable: on an empty pool it builds an     *)
(* instance with the generator, as ObjectPool::new does.                   *)
PoolRemoveReusable_Generates(t) ==
    /\ Locked(t, "remove_reusable")
    /\ IF pool # <<>>
       THEN /\ pool' = Front(pool)
            /\ handles' = [handles EXCEPT ![hnd[t]] = ReusableNew(Top(pool))]
            /\ UNCHANGED <<nextId, genCalls>>
       ELSE /\ pool' = pool
            /\ handles' = [handles EXCEPT
                             ![hnd[t]] = ReusableNew(NewItem(nextId + 1))]
            /\ nextId' = nextId + 1
            /\ genCalls' = genCalls + 1
    /\ lastReturned' = NoItem
    /\ postClear' = PostClearAfterPop
    /\ lastChange' = PopBy("remove_reusable")
    /\ Return(t)
    /\ UNCHANGED <<poisoned, generator, item, raw, nextH, scenario,
                   sequential>>
    /\ UNCHANGED <<fromHandles, gone>>

(* Pool::remove_reusable: self.remove().map(Reusable::new) *)
PoolRemoveReusable(t) ==
    /\ Locked(t, "remove_reusable")
    /\ IF pool # <<>>
       THEN /\ pool' = Front(pool)
            /\ handles' = [handles EXCEPT ![hnd[t]] = ReusableNew(Top(pool))]
       ELSE /\ pool' = pool
            /\ handles' = handles
    /\ lastReturned' = NoItem
    /\ postClear' = PostClearAfterPop
    /\ lastChange' = PopBy("remove_reusable")
    /\ Return(t)
    /\ UNCHANGED <<poisoned, generator, item, raw, nextH, nextId, genCalls,
                   scenario, sequential>>
    /\ UNCHANGED <<fromHandles, gone>>

----------------------------------------------------------------------------
(* ObjectPool::new: the guard `pool` lives until the function returns *)

(* Faulty variant of NewPop: the top spare is read (last) but not removed (pop). *)
NewPop_Peek(t) ==
    /\ Locked(t, "new")
    /\ IF pool # <<>>
       THEN /\ pool' = pool
            /\ handles' = [handles EXCEPT ![hnd[t]] = ReusableNew(Top(pool))]
            /\ Return(t)
       ELSE /\ pc' = [pc EXCEPT ![t] = "generator"]
            /\ UNCHANGED <<pool, handles, lock, op, hnd>>
    /\ lastReturned' = NoItem
    /\ postClear' = PostClearAfterPop
    /\ lastChange' = PopBy("new")
    /\ UNCHANGED <<poisoned, generator, item, nextH, raw, nextId, genCalls,
                   scenario, sequential>>
    /\ UNCHANGED <<fromHandles, gone>>

(* Faulty variant of NewPop: the generator is called whatever the pool holds. *)
NewPop_AlwaysGenerates(t) ==
    /\ Locked(t, "new")
    /\ pc' = [pc EXCEPT ![t] = "generator"]
    /\ UNCHANGED <<pool, lock, poisoned, generator, op, hnd, item, handles,
                   nextH, raw, nextId, genCalls, lastReturned, scenario,
                   sequential>>
    /\ UNCHANGED <<postClear, lastChange, fromHandles, gone>>

(* match pool.pop(): Some(item) is wrapped and returned, the guard is      *)
(* dropped; None goes on to call the generator, the guard still held.      *)
NewPop(t) ==
    /\ Locked(t, "new")
    /\ IF pool # <<>>
       THEN /\ pool' = Front(pool)
            /\ handles' = [handles EXCEPT ![hnd[t]] = ReusableNew(Top(pool))]
            /\ Return(t)
       ELSE /\ pc' = [pc EXCEPT ![t] = "generator"]
            /\ UNCHANGED <<pool, handles, lock, op, hnd>>
    /\ lastReturned' = NoItem
    /\ postClear' = PostClearAfterPop
    /\ lastChange' = PopBy("new")
    /\ UNCHANGED <<poisoned, generator, item, nextH, raw, nextId, genCalls,
                   scenario, sequential>>
    /\ UNCHANGED <<fromHandles, gone>>

(* Faulty variant of GeneratorReturn: the generator is called twice, the first     *)
(* result is thrown away.                                                  *)
GeneratorReturn_Twice(t) ==
    /\ pc[t] = "generator"
    /\ generator = "plain"
    /\ nextId' = nextId + 2
    /\ genCalls' = genCalls + 2
    /\ handles' = [handles EXCEPT ![hnd[t]] = ReusableNew(NewItem(nextId + 2))]
    /\ Return(t)
    /\ UNCHANGED <<pool, poisoned, generator, item, nextH, raw, lastReturned,
                   scenario, sequential>>
    /\ UNCHANGED <<postClear, lastChange, fromHandles, gone>>

(* (Self::pool().generator)() returns a fresh T, which is wrapped and      *)
(* returned; the guard is dropped at the end of new.                       *)
GeneratorReturn(t) ==
    /\ pc[t] = "generator"
    /\ generator = "plain"
    /\ nextId' = nextId + 1
    /\ genCalls' = genCalls + 1
    /\ handles' = [handles EXCEPT ![hnd[t]] = ReusableNew(NewItem(nextId + 1))]
    /\ Return(t)
    /\ UNCHANGED <<pool, poisoned, generator, item, nextH, raw, lastReturned,
                   scenario, sequential>>
    /\ UNCHANGED <<postClear, lastChange, fromHandles, gone>>

(* The generator calls an operation of its own pool: it reaches get_pool   *)
(* in the thread that runs new.                                            *)
GeneratorReenter(t) ==
    /\ pc[t] = "generator"
    /\ generator = "reentrant"
    /\ pc' = [pc EXCEPT ![t] = "relock"]
    /\ UNCHANGED <<pool, lock, poisoned, generator, op, hnd, item, handles,
                   nextH, raw, nextId, genCalls, lastReturned, scenario,
                   sequential>>
    /\ UNCHANGED <<postClear, lastChange, fromHandles, gone>>

(* The generator panics. *)
GeneratorPanic(t) ==
    /\ pc[t] = "generator"
    /\ generator = "panics"
    /\ Unwind(t)
    /\ UNCHANGED <<pool, generator, handles, nextH, raw, nextId, genCalls,
                   lastReturned, scenario, sequential>>
    /\ UNCHANGED <<postClear, lastChange, fromHandles, gone>>

(* Mutex::lock in the thread that already holds the lock: it never         *)
(* returns, it either blocks for ever or panics.                           *)
Relock(t) ==
    /\ pc[t] = "relock"
    /\ \/ /\ lock = t
          /\ pc' = [pc EXCEPT ![t] = "deadlocked"]
          /\ UNCHANGED <<lock, poisoned, op, hnd, item>>
       \/ /\ lock = t
          /\ Unwind(t)
    /\ UNCHANGED <<pool, generator, handles, nextH, raw, nextId, genCalls,
                   lastReturned, scenario, sequential>>
    /\ UNCHANGED <<postClear, lastChange, fromHandles, gone>>

----------------------------------------------------------------------------
(* The operations on a Reusable and on owned values, which take no lock *)


(* Faulty variant of DerefMut: the access goes through the pool's lock. *)
DerefMut_TakesLock(t, h, v) ==
    /\ pc[t] = "idle"
    /\ lock = NoThread
    /\ ~poisoned
    /\ handles[h].state = "Holding"
    /\ handles[h].item.val # v
    /\ handles' = [handles EXCEPT ![h].item.val = v]
    /\ UNCHANGED <<pool, lock, poisoned, generator, pc, op, hnd, item, nextH,
                   raw, nextId, genCalls, lastReturned, scenario, sequential>>
    /\ UNCHANGED <<postClear, lastChange, fromHandles, gone>>

(* DerefMut / AsMut / BorrowMut: the caller writes the payload's field. *)
DerefMut(t, h, v) ==
    /\ pc[t] = "idle"
    /\ handles[h].state = "Holding"
    /\ handles[h].item.val # v
    /\ handles' = [handles EXCEPT ![h].item.val = v]
    /\ UNCHANGED <<pool, lock, poisoned, generator, pc, op, hnd, item, nextH,
                   raw, nextId, genCalls, lastReturned, scenario, sequential>>
    /\ UNCHANGED <<postClear, lastChange, fromHandles, gone>>

(* Faulty variant of IntoInner: self is not forgotten, so its Drop runs when       *)
(* into_inner returns.                                                     *)
IntoInner_NoForget(t, h) ==
    /\ pc[t] = "idle"
    /\ handles[h].state = "Holding"
    /\ handles' = [handles EXCEPT ![h].state = "Extracted"]
    /\ raw' = raw \cup {handles[h].item}
    /\ pc' = [pc EXCEPT ![t] = "get_pool"]
    /\ op' = [op EXCEPT ![t] = "drop"]
    /\ hnd' = [hnd EXCEPT ![t] = h]
    /\ item' = [item EXCEPT ![t] = handles[h].item]
    /\ scenario' = ScenarioAfter("into_inner")
    /\ sequential' = FALSE
    /\ UNCHANGED <<pool, lock, poisoned, generator, nextH, nextId, genCalls,
                   lastReturned>>
    /\ fromHandles' = fromHandles \ {h}
    /\ UNCHANGED <<postClear, lastChange, gone>>

(* Reusable::into_inner: ManuallyDrop::take, forget(self), return. *)
IntoInner(t, h) ==
    /\ pc[t] = "idle"
    /\ handles[h].state = "Holding"
    /\ handles' = [handles EXCEPT ![h].state = "Extracted"]
    /\ raw' = raw \cup {handles[h].item}
    /\ scenario' = ScenarioAfter("into_inner")
    /\ sequential' = FALSE
    /\ UNCHANGED <<pool, lock, poisoned, generator, pc, op, hnd, item, nextH,
                   nextId, genCalls, lastReturned>>
    /\ fromHandles' = fromHandles \ {h}
    /\ UNCHANGED <<postClear, lastChange, gone>>


(* Faulty variant of From: the value is dropped and the handle wraps an    *)
(* instance built by the generator.                                        *)
From_Constructs(t, x) ==
    /\ pc[t] = "idle"
    /\ x \in raw
    /\ nextH < MaxHandles
    /\ nextH' = nextH + 1
    /\ nextId' = nextId + 1
    /\ genCalls' = genCalls + 1
    /\ handles' = [handles EXCEPT ![nextH + 1] = ReusableNew(NewItem(nextId + 1))]
    /\ raw' = raw \ {x}
    /\ fromHandles' = fromHandles \cup {nextH + 1}
    /\ scenario' = ScenarioAfter("from")
    /\ sequential' = FALSE
    /\ UNCHANGED <<pool, lock, poisoned, generator, pc, op, hnd, item,
                   lastReturned>>
    /\ UNCHANGED <<postClear, lastChange, gone>>

(* From<T> for Reusable<T>: Self::new(item) around a value the caller owns. *)
From(t, x) ==
    /\ pc[t] = "idle"
    /\ x \in raw
    /\ nextH < MaxHandles
    /\ nextH' = nextH + 1
    /\ handles' = [handles EXCEPT ![nextH + 1] = ReusableNew(x)]
    /\ raw' = raw \ {x}
    /\ fromHandles' = fromHandles \cup {nextH + 1}
    /\ scenario' = ScenarioAfter("from")
    /\ sequential' = FALSE
    /\ UNCHANGED <<pool, lock, poisoned, generator, pc, op, hnd, item, nextId,
                   genCalls, lastReturned>>
    /\ UNCHANGED <<postClear, lastChange, gone>>

(* The caller builds a T itself, without the pool. *)
MakeRaw(t) ==
    /\ pc[t] = "idle"
    /\ nextId + PendingNew < MaxItems
    /\ nextId' = nextId + 1
    /\ raw' = raw \cup {NewItem(nextId + 1)}
    /\ UNCHANGED <<pool, lock, poisoned, generator, pc, op, hnd, item,
                   handles, nextH, genCalls, lastReturned, scenario,
                   sequential>>
    /\ UNCHANGED <<postClear, lastChange, fromHandles, gone>>

(* An owned T goes out of scope: T's own drop, no Reusable is involved. *)
DropRaw(t, x) ==
    /\ pc[t] = "idle"
    /\ x \in raw
    /\ raw' = raw \ {x}
    /\ gone' = gone + 1
    /\ UNCHANGED <<pool, lock, poisoned, generator, pc, op, hnd, item,
                   handles, nextH, nextId, genCalls, lastReturned, scenario,
                   sequential>>
    /\ UNCHANGED <<postClear, lastChange, fromHandles>>

----------------------------------------------------------------------------
(* The steps of a thread inside an operation *)
Step(t) ==
    \/ GetPool(t)
    \/ PoolLen(t)
    \/ PoolIsEmpty(t)
    \/ PoolInsert(t)
    \/ DropInsert(t)
    \/ PoolClear(t)
    \/ PoolRemove(t)
    \/ PoolRemoveReusable(t)
    \/ NewPop(t)
    \/ GeneratorReturn(t)
    \/ GeneratorReenter(t)
    \/ GeneratorPanic(t)
    \/ Relock(t)

(* The calls a thread may make when it is idle *)
Call(t) ==
    \/ CallNew(t)
    \/ \E h \in HandleIds : CallDrop(t, h)
    \/ CallLen(t)
    \/ CallIsEmpty(t)
    \/ CallClear(t)
    \/ CallRemove(t)
    \/ \E x \in raw : CallInsert(t, x)
    \/ CallRemoveReusable(t)
    \/ \E h \in HandleIds, v \in Vals : DerefMut(t, h, v)
    \/ \E h \in HandleIds : IntoInner(t, h)
    \/ \E x \in raw : From(t, x)
    \/ MakeRaw(t)
    \/ \E x \in raw : DropRaw(t, x)

Next == \E t \in Threads : Call(t) \/ Step(t)

Spec == Init /\ [][Next]_vars

(* Fair scheduling: a thread inside an operation keeps running, and a      *)
(* thread waiting for the lock gets it if it is free again and again.      *)
FairSpec == Spec /\ \A t \in Threads : SF_vars(Step(t))

----------------------------------------------------------------------------
(* The claims *)

(* The thread is inside the call of the generator. *)
InGenerator(t) == pc[t] \in {"generator", "relock", "deadlocked"}

(* The thread's operation is over: it returned, or it ended in a panic. *)
Ended(t) == pc[t] \in {"idle", "panicked"}

(* C1: during ObjectPool::new on an empty pool the generator is only       *)
(* called when the acquiring thread does not hold the pool's lock: no      *)
(* thread is ever inside the generator while it holds the mutex.           *)
C1_GeneratorCalledUnlocked ==
    \A t \in Threads : InGenerator(t) => lock # t

(* C2: the pool cannot deadlock: under fair scheduling every operation a   *)
(* thread has started is eventually over, also an acquire whose generator  *)
(* calls an operation of the same pool.                                    *)
C2_EveryOperationEnds ==
    \A t \in Threads : (~Ended(t)) ~> Ended(t)

Range(s) == {s[k] : k \in 1..Len(s)}
HandlesIn(states) == {h \in HandleIds : handles[h].state \in states}
AllIdle == \A t \in Threads : pc[t] = "idle"

(* C3: a drop of a handle that holds its payload inserts exactly that      *)
(* payload: it gets the lock (it panics only on a poisoned mutex) and      *)
(* returns with the pool being the old pool with the payload pushed, one   *)
(* longer; from an empty pool, one acquire and its drop leave one spare.   *)
C3_DropReturnsPayload ==
    /\ [][\A t \in Threads :
            (op[t] = "drop" /\ pc[t] = "get_pool" /\ pc'[t] # "get_pool"
               /\ ~poisoned) => pc'[t] = "locked"]_vars
    /\ [][\A t \in Threads :
            (op[t] = "drop" /\ pc[t] = "locked" /\ pc'[t] # "locked") =>
              /\ pc'[t] = "idle"
              /\ handles[hnd[t]].state = "Dropping"
              /\ pool' = Append(pool, handles[hnd[t]].item)
              /\ Len(pool') = Len(pool) + 1]_vars
    /\ [](sequential /\ nextH = 1 /\ handles[1].state = "ReturnedToPool"
            => pool = <<handles[1].item>>)

C3_Witness ==
    /\ sequential
    /\ nextH = 1
    /\ handles[1].state = "ReturnedToPool"
    /\ Len(pool) = 1

(* C4: an acquire right after a handle was returned yields that payload,   *)
(* with the value it was returned with, calls no generator and makes the   *)
(* pool one shorter.                                                       *)
C4_ReuseAfterReturn ==
    [][\A t \in Threads :
          (op[t] = "new" /\ pc[t] = "locked" /\ pc'[t] # "locked"
             /\ lastReturned # NoItem) =>
            /\ pc'[t] = "idle"
            /\ handles'[hnd[t]].state = "Holding"
            /\ handles'[hnd[t]].item = lastReturned
            /\ genCalls' = genCalls
            /\ nextId' = nextId
            /\ Len(pool') = Len(pool) - 1]_vars

(* The second handle holds the instance the first returned, mutated. *)
C4_Witness ==
    /\ sequential
    /\ handles[1].state = "ReturnedToPool"
    /\ handles[2].state = "Holding"
    /\ handles[2].item = handles[1].item
    /\ handles[2].item.val = 1
    /\ genCalls = 1
    /\ pool = <<>>

(* C5: into_inner inserts nothing, the handle it consumed never inserts    *)
(* (no drop of it runs), and the end of the extracted value's scope        *)
(* inserts nothing: the pool stays as it was.                              *)
C5_ExtractSuppressesReturn ==
    /\ [][\A h \in HandleIds :
            (handles[h].state = "Holding" /\ handles'[h].state = "Extracted")
              => pool' = pool /\ handles[h].item \in raw']_vars
    /\ [][\A h \in HandleIds :
            handles[h].state = "Extracted" => handles'[h] = handles[h]]_vars
    /\ [](\A h \in HandleIds : handles[h].state = "Extracted" =>
            /\ handles[h].returns = 0
            /\ \A t \in Threads : ~(op[t] = "drop" /\ hnd[t] = h))
    /\ [][(raw' # raw /\ raw' \subseteq raw /\ item' = item
             /\ handles' = handles) => pool' = pool]_vars

(* A handle was extracted and the extracted value's scope has ended. *)
C5_Witness ==
    /\ handles[1].state = "Extracted"
    /\ raw = {}
    /\ nextId = 1
    /\ genCalls = 1
    /\ AllIdle
    /\ pool = <<>>

(* The moves of a handle: created Holding; its drop takes the payload and *)
(* then pushes it; or into_inner extracts it.                              *)
HandleMoves ==
    {<<"Unused", "Holding">>, <<"Holding", "Dropping">>,
     <<"Dropping", "ReturnedToPool">>, <<"Holding", "Extracted">>}

(* C6: a handle leaves Holding at most once, to ReturnedToPool (through    *)
(* its drop, which pushes the payload once) or to Extracted (no push); a   *)
(* handle in a terminal state stays there and never pushes again.          *)
C6_HandleStateMachine ==
    /\ [][\A h \in HandleIds :
            /\ handles'[h].state # handles[h].state =>
                 <<handles[h].state, handles'[h].state>> \in HandleMoves
            /\ handles'[h].returns # handles[h].returns =>
                 /\ handles[h].state = "Dropping"
                 /\ handles'[h].state = "ReturnedToPool"
                 /\ handles'[h].returns = handles[h].returns + 1
                 /\ pool' = Append(pool, handles[h].item)]_vars
    /\ [](\A h \in HandleIds :
            handles[h].returns =
              IF handles[h].state = "ReturnedToPool" THEN 1 ELSE 0)

(* One handle was returned and another extracted. *)
C6_Witness ==
    /\ handles[1].state = "ReturnedToPool"
    /\ handles[1].returns = 1
    /\ handles[2].state = "Extracted"
    /\ handles[2].returns = 0

(* C7: an instance is in at most one place: it is not both a spare and the *)
(* payload of a live handle, nor the payload of two live handles, nor      *)
(* twice in the pool.                                                      *)
C7_ExclusiveOwnership ==
    \A i \in 1..MaxItems :
        Cardinality({k \in 1..Len(pool) : pool[k].id = i})
          + Cardinality({h \in HandleIds :
                           Live(h) /\ handles[h].item.id = i}) <= 1

(* Every thread is inside an operation: a spare returned by one handle is  *)
(* in the pool while the payload of another is on its way there.           *)
C7_Witness ==
    /\ \A t \in Threads : Busy(t)
    /\ Len(pool) = 1
    /\ HandlesIn({"Dropping"}) # {}
    /\ HandlesIn({"ReturnedToPool"}) # {}

(* C8: from an empty pool, while handles are only acquired the pool stays  *)
(* empty and the k handles hold k distinct instances, each from its own    *)
(* call of the generator; when they are then only released, the pool holds *)
(* what was released, k once all are.                                      *)
C8_Overlap ==
    /\ scenario = "acquire" =>
         /\ pool = <<>>
         /\ Cardinality(HandlesIn({"Holding"})) = genCalls
         /\ HandlesIn({"Dropping", "ReturnedToPool", "Extracted"}) = {}
         /\ \A g, h \in HandlesIn({"Holding"}) :
               g # h => handles[g].item.id # handles[h].item.id
    /\ scenario = "release" =>
         /\ Len(pool) = Cardinality(HandlesIn({"ReturnedToPool"}))
         /\ Cardinality(HandlesIn({"Holding", "Dropping", "ReturnedToPool"}))
              = genCalls
         /\ (HandlesIn({"Holding", "Dropping"}) = {} => Len(pool) = genCalls)

(* Two handles were acquired before any release, and both were released. *)
C8_Witness ==
    /\ scenario = "release"
    /\ genCalls = 2
    /\ HandlesIn({"ReturnedToPool"}) = {1, 2}
    /\ Len(pool) = 2
    /\ AllIdle

(* C9: after N >= 1 acquire/drop cycles without overlap and without any    *)
(* other pool operation the pool holds one spare, whatever N is.           *)
C9_NoDoubleCount ==
    sequential =>
      /\ Len(pool) <= 1
      /\ genCalls <= 1
      /\ (AllIdle /\ HandlesIn({"Holding", "Dropping"}) = {}
            /\ HandlesIn({"ReturnedToPool"}) # {}) => Len(pool) = 1

(* Two cycles are over. *)
C9_Witness ==
    /\ sequential
    /\ AllIdle
    /\ HandlesIn({"ReturnedToPool"}) = {1, 2}
    /\ Len(pool) = 1

(* C10: ObjectPool::new that finds the pool empty calls the generator once *)
(* and returns a handle around its result, the pool still empty; finding   *)
(* it non-empty it calls no generator and returns one of the spares.       *)
C10_ConstructionFallback ==
    /\ [][\A t \in Threads :
            (op[t] = "new" /\ pc[t] = "locked" /\ pc'[t] # "locked") =>
              IF pool = <<>>
              THEN /\ pc'[t] = "generator"
                   /\ genCalls' = genCalls
                   /\ pool' = <<>>
              ELSE /\ pc'[t] = "idle"
                   /\ genCalls' = genCalls
                   /\ handles'[hnd[t]].state = "Holding"
                   /\ handles'[hnd[t]].item \in Range(pool)
                   /\ Len(pool') = Len(pool) - 1]_vars
    /\ [][\A t \in Threads :
            (pc[t] = "generator" /\ pc'[t] = "idle") =>
              /\ genCalls' = genCalls + 1
              /\ pool = <<>> /\ pool' = <<>>
              /\ handles'[hnd[t]] = ReusableNew(NewItem(nextId'))
              /\ nextId' = nextId + 1]_vars
    /\ [][genCalls' # genCalls =>
            \E t \in Threads : pc[t] = "generator" /\ pc'[t] = "idle"]_vars
    /\ [](\A t \in Threads : pc[t] = "generator" => pool = <<>>)

(* One acquire built an instance and a later one took a spare. *)
C10_Witness ==
    /\ genCalls = 1
    /\ nextId = 2
    /\ HandlesIn({"Holding"}) = {1, 2}
    /\ pool = <<>>

----------------------------------------------------------------------------
(* C11: Pool::clear empties the collection whatever it held and touches no *)
(* handle: every handle, every payload taken by a drop in progress and     *)
(* every owned value is as before.  When the collection then changes by    *)
(* drops only, it holds as many spares as there were drops since the clear.*)
C11_ClearFrame ==
    /\ [][\A t \in Threads :
            (op[t] = "clear" /\ pc[t] = "locked" /\ pc'[t] # "locked") =>
              /\ pool' = <<>>
              /\ handles' = handles
              /\ item' = item
              /\ raw' = raw
              /\ pc'[t] = "idle"]_vars
    /\ [](\A n \in postClear : Len(pool) = n)

(* Two handles were dropped after a clear and nothing else changed the     *)
(* collection since.                                                       *)
C11_Witness ==
    /\ postClear = {2}
    /\ Len(pool) = 2
    /\ HandlesIn({"ReturnedToPool"}) = {1, 2}

----------------------------------------------------------------------------
(* C12: the collection is a stack.  An insert (by the user or by a drop)   *)
(* puts the instance after the spares already there, which keep their      *)
(* order.  Pool::remove on a non-empty pool hands the caller the last      *)
(* spare, the most recently inserted one still there, and leaves the       *)
(* others in their order; on an empty pool it hands out nothing and the    *)
(* pool stays empty.  ObjectPool::new (and Pool::remove_reusable) on a     *)
(* non-empty pool wraps that same last spare.                              *)
C12_Lifo ==
    /\ [][\A t \in Threads :
            (op[t] \in {"insert", "drop"} /\ pc[t] = "locked"
                /\ pc'[t] # "locked") =>
              /\ Len(pool') = Len(pool) + 1
              /\ pool'[Len(pool')] = item[t]
              /\ SubSeq(pool', 1, Len(pool)) = pool]_vars
    /\ [][\A t \in Threads :
            (op[t] = "remove" /\ pc[t] = "locked" /\ pc'[t] # "locked") =>
              IF pool # <<>>
              THEN /\ pool[Len(pool)] \notin raw
                   /\ raw' = raw \cup {pool[Len(pool)]}
                   /\ pool' = SubSeq(pool, 1, Len(pool) - 1)
              ELSE /\ raw' = raw
                   /\ pool' = <<>>]_vars
    /\ [][\A t \in Threads :
            (op[t] \in {"new", "remove_reusable"} /\ pc[t] = "locked"
                /\ pc'[t] # "locked" /\ pool # <<>>) =>
              /\ handles'[hnd[t]].state = "Holding"
              /\ handles'[hnd[t]].item = pool[Len(pool)]
              /\ pool' = SubSeq(pool, 1, Len(pool) - 1)]_vars

(* Pool::remove (called by remove_reusable) found two spares, took the     *)
(* last one and left the first.                                            *)
C12_Witness ==
    /\ lastChange.by = "remove_reusable"
    /\ Len(lastChange.was) = 2
    /\ pool = <<lastChange.was[1]>>
    /\ \E h \in HandlesIn({"Holding"}) : handles[h].item = lastChange.was[2]

----------------------------------------------------------------------------
(* C13: a poisoned lock is fatal.  Once the mutex is poisoned it stays     *)
(* poisoned and free, no thread is ever under the guard again, the         *)
(* collection never changes, no handle's payload reaches the pool, and the *)
(* only things a thread does with a pool operation are to panic, or to     *)
(* start a drop whose get_pool then panics.                                *)
C13_PoisonIsFatal ==
    /\ [](poisoned =>
            /\ lock = NoThread
            /\ \A t \in Threads : pc[t] \in {"idle", "get_pool", "panicked"})
    /\ [][poisoned =>
            /\ poisoned'
            /\ pool' = pool
            /\ \A h \in HandleIds :
                 handles'[h].state = "ReturnedToPool" =>
                   handles[h].state = "ReturnedToPool"
            /\ \A t \in Threads :
                 pc'[t] # pc[t] =>
                   \/ pc'[t] = "panicked"
                   \/ /\ pc[t] = "idle"
                      /\ pc'[t] = "get_pool"
                      /\ op'[t] = "drop"]_vars

(* Both threads panicked on the poisoned lock, one of them in the drop of  *)
(* a handle, whose payload never reached the pool.                         *)
C13_Witness ==
    /\ poisoned
    /\ \A t \in Threads : pc[t] = "panicked"
    /\ HandlesIn({"Dropping"}) # {}

----------------------------------------------------------------------------
(* The positions of a thread that holds the MutexGuard. *)
UnderGuard(t) == pc[t] \in {"locked", "generator", "relock", "deadlocked"}

(* C14: the operations are serialized by the one lock.  A thread is inside *)
(* the body of an operation exactly when it holds the lock, so at most one *)
(* thread is; an operation enters its critical section once, at its        *)
(* get_pool, and is over when it leaves it; the collection changes only in *)
(* a step of the thread holding the lock, which ends that thread's         *)
(* critical section and moves no other thread.  So the critical sections   *)
(* of a concurrent execution follow one another in one order, and each     *)
(* acts on the collection the previous one left.  An acquire that takes a  *)
(* spare takes it out of the collection, and no live handle holds it.      *)
C14_Serialized ==
    /\ [](\A t \in Threads : UnderGuard(t) <=> lock = t)
    /\ [][\A t \in Threads :
            (UnderGuard(t)' /\ ~UnderGuard(t)) =>
              /\ pc[t] \in {"idle", "get_pool"}
              /\ pc'[t] = "locked"
              /\ lock = NoThread]_vars
    /\ [][\A t \in Threads :
            (UnderGuard(t) /\ ~UnderGuard(t)') =>
              /\ pc'[t] \in {"idle", "panicked"}
              /\ lock' = NoThread]_vars
    /\ [][pool' # pool =>
            \E t \in Threads :
              /\ lock = t
              /\ pc[t] = "locked"
              /\ pc'[t] = "idle"
              /\ \A u \in Threads \ {t} : pc'[u] = pc[u]]_vars
    /\ [][\A t \in Threads :
            (op[t] = "new" /\ pc[t] = "locked" /\ pc'[t] = "idle") =>
              /\ \A k \in 1..Len(pool') :
                   pool'[k].id # handles'[hnd[t]].item.id
              /\ \A h \in HandleIds \ {hnd[t]} :
                   Live(h) => handles[h].item.id # handles'[hnd[t]].item.id]_vars

(* One thread is in the critical section of an acquire that finds one      *)
(* spare, while the other, in the get_pool of a drop, waits for the lock.  *)
C14_Witness ==
    \E t, u \in Threads :
      /\ pc[t] = "locked"
      /\ op[t] = "new"
      /\ Len(pool) = 1
      /\ pc[u] = "get_pool"

----------------------------------------------------------------------------
(* C15: remove_reusable and the drop of the handle it returned undo each   *)
(* other.  When the collection's last two changes are the pop of a         *)
(* remove_reusable and the push of the instance it took by a drop, the     *)
(* collection holds the same instances in the same order as before the     *)
(* pop, and those below the top are unchanged.  On an empty pool           *)
(* remove_reusable returns no handle, calls no generator and leaves the    *)
(* pool empty.                                                             *)
C15_RemoveReusableRoundTrip ==
    /\ [](lastChange.by = "round_trip" =>
            /\ Len(pool) = Len(lastChange.was)
            /\ \A k \in 1..Len(pool) : pool[k].id = lastChange.was[k].id
            /\ \A k \in 1..(Len(pool) - 1) : pool[k] = lastChange.was[k])
    /\ [][\A t \in Threads :
            (op[t] = "remove_reusable" /\ pc[t] = "locked"
                /\ pc'[t] # "locked" /\ pool = <<>>) =>
              /\ pool' = <<>>
              /\ handles' = handles
              /\ genCalls' = genCalls
              /\ nextId' = nextId
              /\ pc'[t] = "idle"]_vars

(* remove_reusable took the top of two spares and the drop of its handle   *)
(* put it back.                                                            *)
C15_Witness ==
    /\ lastChange.by = "round_trip"
    /\ Len(lastChange.was) = 2
    /\ pool = lastChange.was

----------------------------------------------------------------------------
(* C16: access through a handle is lock-free.  A thread that is not inside *)
(* a pool operation can write the payload of any handle it holds whoever   *)
(* holds the lock and whether or not the lock is poisoned; the write       *)
(* changes that payload's field only: the lock, the poison flag, the       *)
(* collection, every other handle, the owned values and every thread's     *)
(* position stay as they are.                                              *)
C16_AccessIsLockFree ==
    /\ [](\A t \in Threads, h \in HandleIds, v \in Vals :
            (pc[t] = "idle" /\ handles[h].state = "Holding"
                /\ handles[h].item.val # v) => ENABLED DerefMut(t, h, v))
    /\ [][\A h \in HandleIds :
            (/\ handles[h].state = "Holding"
             /\ handles'[h].state = "Holding"
             /\ handles'[h].item.val # handles[h].item.val) =>
              /\ handles'[h].item.id = handles[h].item.id
              /\ \A g \in HandleIds \ {h} : handles'[g] = handles[g]
              /\ lock' = lock
              /\ poisoned' = poisoned
              /\ pool' = pool
              /\ raw' = raw
              /\ item' = item
              /\ pc' = pc]_vars

(* A thread holds the lock inside the acquire that was given slot 1, so    *)
(* the handle in slot 2 was built after the lock was taken; its payload    *)
(* has been written since.                                                 *)
C16_Witness ==
    \E u \in Threads :
      /\ lock = u
      /\ pc[u] = "generator"
      /\ hnd[u] = 1
      /\ handles[2].state = "Holding"
      /\ handles[2].item.val = 1

----------------------------------------------------------------------------
(* C17: a generator that panics inside ObjectPool::new panics under the    *)
(* guard: the thread holds the lock when it panics, the unwinding releases *)
(* the lock and poisons it, no handle is returned and the collection is    *)
(* as it was.  With such a generator a thread that has panicked means a    *)
(* poisoned lock and no instance was ever built; and once the lock is      *)
(* poisoned it stays so and no thread gets under the guard again.          *)
C17_GeneratorPanicPoisons ==
    /\ [][\A t \in Threads :
            (pc[t] = "generator" /\ pc'[t] = "panicked") =>
              /\ op[t] = "new"
              /\ lock = t
              /\ lock' = NoThread
              /\ poisoned'
              /\ pool = <<>> /\ pool' = <<>>
              /\ handles' = handles
              /\ handles[hnd[t]].state = "Unused"]_vars
    /\ [](generator = "panics" =>
            /\ genCalls = 0
            /\ (\E t \in Threads : pc[t] = "panicked") => poisoned)
    /\ [][poisoned =>
            /\ poisoned'
            /\ \A t \in Threads : ~UnderGuard(t)']_vars

(* The generator panicked in the first acquire; the second acquire, by the *)
(* other thread, panicked on the poisoned lock: neither returned a handle. *)
C17_Witness ==
    /\ generator = "panics"
    /\ poisoned
    /\ \A t \in Threads : pc[t] = "panicked"
    /\ nextH = 2
    /\ \A h \in HandleIds : handles[h].state = "Unused"

----------------------------------------------------------------------------
(* C18: a handle built by Reusable::from is a handle like any other.       *)
(* Building it takes an owned value, wraps that very value in a held       *)
(* handle, and touches neither the lock, the collection nor the generator. *)
(* The drop of such a handle pushes its payload on the collection, which   *)
(* grows by one, and calls no generator; so the collection can hold more   *)
(* spares than the generator ever built.                                   *)
C18_FromHandleReturns ==
    /\ [][(nextH' # nextH /\ pc' = pc) =>
            /\ nextH' = nextH + 1
            /\ fromHandles' = fromHandles \cup {nextH'}
            /\ handles'[nextH'].state = "Holding"
            /\ handles'[nextH'].item \in raw
            /\ raw' = raw \ {handles'[nextH'].item}
            /\ \A g \in HandleIds \ {nextH'} : handles'[g] = handles[g]
            /\ pool' = pool
            /\ lock' = lock
            /\ genCalls' = genCalls
            /\ nextId' = nextId]_vars
    /\ [][\A t \in Threads :
            (op[t] = "drop" /\ hnd[t] \in fromHandles /\ pc[t] = "locked"
                /\ pc'[t] # "locked") =>
              /\ pool' = pool \o <<handles[hnd[t]].item>>
              /\ handles'[hnd[t]].state = "ReturnedToPool"
              /\ genCalls' = genCalls
              /\ nextId' = nextId]_vars
    /\ [](lastChange.by = "drop_from" =>
            pool = lastChange.was \o <<lastReturned>>)

(* The drop of a handle built by Reusable::from was the last change of the *)
(* collection, which holds more spares than the generator built instances. *)
C18_Witness ==
    /\ lastChange.by = "drop_from"
    /\ Len(pool) > genCalls

----------------------------------------------------------------------------
(* Where the instances are: the spares, the payloads of the live handles,  *)
(* the values the callers own, the arguments of the inserts in progress.   *)
InsertsInFlight == {t \in Threads : op[t] = "insert" /\ item[t] # NoItem}

PresentIds ==
    {pool[k].id : k \in 1..Len(pool)}
      \cup {handles[h].item.id : h \in HandlesIn({"Holding", "Dropping"})}
      \cup {x.id : x \in raw}
      \cup {item[t].id : t \in InsertsInFlight}

PresentCount ==
    Len(pool) + Cardinality(HandlesIn({"Holding", "Dropping"}))
      + Cardinality(raw) + Cardinality(InsertsInFlight)

(* C19: conservation.  While the lock is not poisoned, every instance ever *)
(* built (by the generator or by a caller) is in exactly one place: a      *)
(* spare in the pool, the payload of a live handle, a value a caller owns  *)
(* (built by it, or handed out by into_inner or Pool::remove, or on its    *)
(* way into Pool::insert), or it was dropped by Pool::clear or by its      *)
(* owner.  No instance is in two places and none disappears otherwise:     *)
(* the count of the dropped ones grows by the number of spares at a clear  *)
(* and by one when an owner drops its value, and never else.               *)
C19_Conservation ==
    /\ [](~poisoned =>
            /\ nextId = PresentCount + gone
            /\ Cardinality(PresentIds) = PresentCount
            /\ PresentIds \subseteq 1..nextId)
    /\ [][gone' # gone =>
            \/ \E t \in Threads :
                 /\ op[t] = "clear" /\ pc[t] = "locked" /\ pc'[t] = "idle"
                 /\ gone' = gone + Len(pool)
                 /\ pool' = <<>>
            \/ /\ gone' = gone + 1
               /\ \E x \in raw : raw' = raw \ {x}
               /\ UNCHANGED <<pool, handles, item, pc>>]_vars

(* Three instances were built, at least one of them by the generator: one  *)
(* is a spare, one is held by a handle and one was dropped.                *)
C19_Witness ==
    /\ ~poisoned
    /\ nextId = 3
    /\ genCalls >= 1
    /\ Len(pool) = 1
    /\ Cardinality(HandlesIn({"Holding"})) = 1
    /\ gone = 1

====
